---- MODULE Spec2Model ----
(***************************************************************************)
(* The environment state machine of clemcore (GameEnvironment and its      *)
(* inclusive grid specialisation) and the turn orchestrator EnvGameMaster  *)
(* that drives players through it.                                         *)
(*                                                                         *)
(* Encoding of Python values:                                              *)
(*   - a dict is a function whose DOMAIN is the set of keys present;       *)
(*   - a player is an identity 1..MaxPlayers, name[p] = k stands for the   *)
(*     string "Player k" and 0 for a name that was never assigned;         *)
(*   - a grid position is the pair <<row, col>>;                           *)
(*   - a PlayerObject is an identity into the heap `objects`;              *)
(*   - None is NoneInt for max_moves, NoPlayer for current_player and      *)
(*     NoType for a missing action_type;                                   *)
(*   - a raised exception is the `outcome` of the call record `ret`; the   *)
(*     state keeps every assignment made before the raise.                 *)
(***************************************************************************)
EXTENDS Integers, Sequences, FiniteSets, TLC

\* ------------------------------------------------------------------ bounds
MaxPlayers == 2
MaxWidth == 2
MaxHeight == 1
MaxMovesCap == 2
MaxCalls == 3
MaxRounds == 2
MaxGridWidth == 4
MaxGridHeight == 3
MaxObjects == 3
MaxBatch == 2
MaxAttempts == 4

\* --------------------------------------------------------------- sentinels
NoneInt == -1
NoPlayer == 0
NoType == "<missing>"

VARIABLES
    \* configuration copied by the constructors
    max_moves, render_as, width, height, limited_visibility, show_explored,
    \* GameEnvironment
    state, action_spaces, observations, players, objects,
    \* EnvGameMaster
    players_by_names, name, current_player, current_player_idx, current_round,
    \* the last call: its result and the calls it made
    ret, trace,
    \* history: calls of step (and of the grid operations, where a game makes
    \* them) since reset; orchestrator steps since setup;
    \* the positions each player name has occupied since reset
    calls, cleanSteps, visited

cfgVars == <<max_moves, render_as, width, height, limited_visibility, show_explored>>
envVars == <<state, action_spaces, observations, players, objects>>
gmVars == <<players_by_names, name, current_player, current_player_idx, current_round>>
histVars == <<calls, cleanSteps, visited>>
vars == <<cfgVars, envVars, gmVars, ret, trace, histVars>>

\* cleanSteps is <<k>> after k orchestrator steps none of which aborted,
\* terminated or raised, and Dirty from the first step that did
Dirty == <<>>

\* ----------------------------------------------------------------- helpers
Range(f) == {f[x] : x \in DOMAIN f}

Last(s) == s[Len(s)]

DictSet(d, k, v) == [x \in (DOMAIN d) \cup {k} |-> IF x = k THEN v ELSE d[x]]

EmptyDict == <<>>

\* an entry of trace: a call with an argument, or "return:f" with the value
\* f returned (1 for True, 0 for False)
Call(c) == [call |-> c, arg |-> 0]

CallArg(c, a) == [call |-> c, arg |-> a]

Called(c) == \E i \in DOMAIN trace : trace[i].call = c

\* ------------------------------------------------------- warnings (strings)
Warning(t, a) == [text |-> t, args |-> a]

NoWarning == Warning("", <<>>)

FormatWarning == Warning("Your response violated the format. Please try again.", <<>>)

ActionSpaceWarning == Warning("You cannot do that. Please try again.", <<>>)

DirectionWarning(d) == Warning("Invalid direction: {direction}! Please try again.", <<d>>)

OutsideWarning(y, x) == Warning("The cell ({new_y}, {new_x}) is outside the grid! Please try again.", <<y, x>>)

\* --------------------------------------------------------------- GameState
FirstChar(key) ==
    CASE key = "terminated" -> "t"
      [] key = "success" -> "s"
      [] key = "aborted" -> "a"
      [] key = "moves" -> "m"
      [] key = "warning" -> "w"
      [] OTHER -> "_"

BaseState ==
    [terminated |-> FALSE, success |-> FALSE, aborted |-> FALSE,
     moves |-> 0, warning |-> NoWarning]

GridConstructedState == [_player_positions |-> <<"None">>, _explored |-> <<"None">>]

Cells == (0 .. height - 1) \X (0 .. width - 1)

InGrid(pos) == 0 <= pos[2] /\ pos[2] < width /\ 0 <= pos[1] /\ pos[1] < height

players_start == [i \in 1 .. MaxPlayers + 1 |-> <<(i - 1) % height, ((i - 1) * (width - 1)) % width>>]

\* ------------------------------------------------------------- Grid model
\* Object.__eq__ is the dataclass comparison of the fields; symbol and
\* pretty_symbol are the same for every PlayerObject.
ObjectEq(objs, a, b) == objs[a].position = objs[b].position /\ objs[a].name = objs[b].name

ObjectIn(objs, o, stack) == \E i \in DOMAIN stack : ObjectEq(objs, stack[i], o)

\* list.remove: drops the first element equal to o
ListRemove(objs, o, stack) ==
    LET first == CHOOSE i \in DOMAIN stack :
                    /\ ObjectEq(objs, stack[i], o)
                    /\ \A j \in 1 .. i - 1 : ~ObjectEq(objs, stack[j], o)
    IN  [i \in 1 .. Len(stack) - 1 |-> IF i < first THEN stack[i] ELSE stack[i + 1]]

\* mutant: a position outside the grid is clamped to the nearest cell
_add_object_clamped(grid, objs, o) ==
    LET pos == objs[o].position
        clamp(v, m) == IF v < 0 THEN 0 ELSE IF v >= m THEN m - 1 ELSE v
        cell == <<clamp(pos[1], height), clamp(pos[2], width)>>
    IN  [grid |-> [grid EXCEPT ![cell] = Append(@, o)], outcome |-> "return"]

\* Python list indexing: an index from -len to -1 counts from the end, one
\* outside -len .. len-1 raises IndexError
PyInRange(v, m) == -m <= v /\ v < m

PyIndex(v, m) == IF v < 0 THEN v + m ELSE v

\* _add_object: the grid afterwards and whether ValueError was raised
_add_object(grid, objs, o) ==
    LET pos == objs[o].position
    IN  IF InGrid(pos)
        THEN [grid |-> [grid EXCEPT ![pos] = Append(@, o)], outcome |-> "return"]
        ELSE [grid |-> grid, outcome |-> "ValueError"]

_remove_object(grid, objs, o) ==
    LET pos == objs[o].position
    IN  IF ~PyInRange(pos[1], height) \/ ~PyInRange(pos[2], width)
        THEN [grid |-> grid, outcome |-> "IndexError"]
        ELSE LET cell == <<PyIndex(pos[1], height), PyIndex(pos[2], width)>>
             IN  IF ObjectIn(objs, o, grid[cell])
                 THEN [grid |-> [grid EXCEPT ![cell] = ListRemove(objs, o, @)], outcome |-> "return"]
                 ELSE [grid |-> grid, outcome |-> "return"]

\* mutant: no bounds test, the position indexes the grid as Python does
_get_objects_at_unchecked(grid, pos) ==
    IF PyInRange(pos[1], height) /\ PyInRange(pos[2], width)
    THEN grid[<<PyIndex(pos[1], height), PyIndex(pos[2], width)>>]
    ELSE <<>>

_get_objects_at(grid, pos) == IF InGrid(pos) THEN grid[pos] ELSE <<>>

\* ------------------------------------------------- inclusive grid environment
\* mutant: marking forgets what was explored before
_mark_explored_fresh(explored, pos) ==
    [c \in Cells |-> c \in (pos[1] - 1 .. pos[1] + 1) \X (pos[2] - 1 .. pos[2] + 1)]

\* mutant: only the player's own cell is marked
_mark_explored_cell_only(explored, pos) ==
    [c \in Cells |-> IF c = pos THEN TRUE ELSE explored[c]]

_mark_explored(explored, pos) ==
    LET marked == {c \in (pos[1] - 1 .. pos[1] + 1) \X (pos[2] - 1 .. pos[2] + 1) :
                      0 <= c[1] /\ c[1] < height /\ 0 <= c[2] /\ c[2] < width}
    IN  [c \in Cells |-> IF c \in marked THEN TRUE ELSE explored[c]]

_get_player_position(st, player_name) == st["_player_positions"][player_name]

_get_player_object(st, player_name) ==
    Last(_get_objects_at(st["_grid"], _get_player_position(st, player_name)))

Target(pos, direction) ==
    CASE direction = "n" -> <<pos[1] - 1, pos[2]>>
      [] direction = "s" -> <<pos[1] + 1, pos[2]>>
      [] direction = "e" -> <<pos[1], pos[2] + 1>>
      [] direction = "w" -> <<pos[1], pos[2] - 1>>
      [] OTHER -> pos

\* InclusiveGridEnvironment.reset after GameEnvironment.reset and
\* GridEnvironment.reset: one PlayerObject per entry of self.players, in
\* the order of self.players; a later player of the same name overwrites the
\* recorded position
ResetObjects ==
    [i \in 1 .. Len(players) |->
        [position |-> players_start[i], name |-> name[players[i]], player |-> players[i]]]

ResetGrid ==
    [c \in Cells |-> SelectSeq([i \in 1 .. Len(players) |-> i],
                               LAMBDA i : players_start[i] = c)]

ResetPositions ==
    [n \in {name[players[i]] : i \in 1 .. Len(players)} |->
        players_start[CHOOSE i \in 1 .. Len(players) :
            /\ name[players[i]] = n
            /\ \A j \in i + 1 .. Len(players) : name[players[j]] # n]]

ResetExplored ==
    [n \in DOMAIN ResetPositions |->
        _mark_explored([c \in Cells |-> FALSE], ResetPositions[n])]

ResetState ==
    LET base == BaseState @@ ("_grid" :> ResetGrid) @@ ("_player_positions" :> ResetPositions)
    IN  IF show_explored THEN base @@ ("_explored" :> ResetExplored) ELSE base

\* _move_player: state, heap and outcome; an exception leaves what was
\* assigned before it
_move_player(st, objs, player_name, direction) ==
    LET pos == _get_player_position(st, player_name)
        stack == _get_objects_at(st["_grid"], pos)
    IN  IF stack = <<>> THEN [state |-> st, objects |-> objs, outcome |-> "IndexError"]
        ELSE
        LET player_object == _get_player_object(st, player_name)
            removed == _remove_object(st["_grid"], objs, player_object)
            moved == [objs EXCEPT ![player_object].position =
                         IF direction \in {"n", "s", "e", "w"} THEN Target(pos, direction) ELSE @]
            added == _add_object(removed.grid, moved, player_object)
            new_pos == moved[player_object].position
            st1 == [st EXCEPT !["_grid"] = added.grid]
            st2 == IF show_explored
                   THEN [st1 EXCEPT !["_explored"][player_name] = _mark_explored(@, new_pos)]
                   ELSE st1
        IN  IF removed.outcome # "return"
            THEN [state |-> st, objects |-> objs, outcome |-> removed.outcome]
            ELSE IF added.outcome # "return"
            THEN [state |-> st1, objects |-> moved, outcome |-> added.outcome]
            ELSE [state |-> [st2 EXCEPT !["_player_positions"][player_name] = new_pos],
                  objects |-> moved, outcome |-> "return"]

\* mutant: the target is not tested against the grid
_action_valid_in_state_lenient(st, player_name, direction) ==
    IF direction \in {"n", "s", "e", "w"}
    THEN [valid |-> TRUE, warning |-> NoWarning]
    ELSE [valid |-> FALSE, warning |-> DirectionWarning(direction)]

_action_valid_in_state(st, player_name, direction) ==
    LET pos == _get_player_position(st, player_name)
        new_pos == Target(pos, direction)
    IN  IF direction \notin {"n", "s", "e", "w"}
        THEN [valid |-> FALSE, warning |-> DirectionWarning(direction)]
        ELSE IF ~(0 <= new_pos[1] /\ new_pos[1] < height /\ 0 <= new_pos[2] /\ new_pos[2] < width)
        THEN [valid |-> FALSE, warning |-> OutsideWarning(new_pos[1], new_pos[2])]
        ELSE [valid |-> TRUE, warning |-> NoWarning]

\* --------------------------------------------------------------- visibility
FullMask == [c \in Cells |-> TRUE]

\* mutant: the local window reaches two cells from the player
_visible_grid_wide(st, player_name) ==
    IF ~limited_visibility
    THEN [outcome |-> "return", none |-> FALSE, mask |-> FullMask]
    ELSE IF show_explored
    THEN IF player_name \in DOMAIN st["_explored"]
         THEN [outcome |-> "return", none |-> FALSE, mask |-> st["_explored"][player_name]]
         ELSE [outcome |-> "return", none |-> TRUE, mask |-> FullMask]
    ELSE IF player_name \notin DOMAIN st["_player_positions"]
    THEN [outcome |-> "KeyError", none |-> FALSE, mask |-> FullMask]
    ELSE LET pos == st["_player_positions"][player_name]
             window == (pos[1] - 2 .. pos[1] + 2) \X (pos[2] - 2 .. pos[2] + 2)
         IN  [outcome |-> "return", none |-> FALSE, mask |-> [c \in Cells |-> c \in window]]

\* _visible_grid: none = TRUE stands for the value None returned by dict.get
_visible_grid(st, player_name) ==
    IF ~limited_visibility
    THEN [outcome |-> "return", none |-> FALSE, mask |-> FullMask]
    ELSE IF show_explored
    THEN IF player_name \in DOMAIN st["_explored"]
         THEN [outcome |-> "return", none |-> FALSE, mask |-> st["_explored"][player_name]]
         ELSE [outcome |-> "return", none |-> TRUE, mask |-> FullMask]
    ELSE IF player_name \notin DOMAIN st["_player_positions"]
    THEN [outcome |-> "KeyError", none |-> FALSE, mask |-> FullMask]
    ELSE LET pos == _get_player_position(st, player_name)
             lo(v) == IF 0 > v - 1 THEN 0 ELSE v - 1
             hi(v, m) == IF m < v + 2 THEN m ELSE v + 2
             window == (lo(pos[1]) .. hi(pos[1], height) - 1) \X (lo(pos[2]) .. hi(pos[2], width) - 1)
         IN  [outcome |-> "return", none |-> FALSE, mask |-> [c \in Cells |-> c \in window]]

\* ------------------------------------------------------------------ renderers
RowMajor == [k \in 1 .. height * width |-> <<(k - 1) \div width, (k - 1) % width>>]

\* mutant: an occupied cell shows its first (bottom) object
RenderCells_bottom(st, vis, unknown, field, empty) ==
    [k \in 1 .. height * width |->
        LET c == RowMajor[k]
            stack == st["_grid"][c]
        IN  [cell |-> c,
             content |-> IF ~vis.none /\ ~vis.mask[c] THEN unknown
                         ELSE IF stack # <<>> THEN <<field, stack[1]>> ELSE empty]]

\* one entry per cell; <<field, o>> stands for the value of that field
\* (symbol or pretty_symbol) of the object o
RenderCells(st, vis, unknown, field, empty) ==
    [k \in 1 .. height * width |->
        LET c == RowMajor[k]
            stack == st["_grid"][c]
        IN  [cell |-> c,
             content |-> IF ~vis.none /\ ~vis.mask[c] THEN unknown
                         ELSE IF stack # <<>> THEN <<field, stack[Len(stack)]>> ELSE empty]]

\* the renderers: a str of the topmost symbols, a str of the topmost
\* pretty symbols, the bytes of a PNG of the topmost symbols
_render_state_as_string(st, vis) ==
    [format |-> "str", cells |-> RenderCells(st, vis, "?", "symbol", "empty")]

_render_state_as_human_readable(st, vis) ==
    [format |-> "str", cells |-> RenderCells(st, vis, "unknown-glyph", "pretty_symbol", "empty-glyph")]

_render_state_as_image(st, vis) ==
    [format |-> "png", cells |-> RenderCells(st, vis, "?", "symbol", " ")]

\* mutant: an unknown render_as value falls back to the string renderer
render_state_default_string(st, player_name) ==
    LET vis == _visible_grid(st, player_name)
    IN  IF vis.outcome # "return"
        THEN [outcome |-> vis.outcome, render |-> <<>>]
        ELSE IF render_as = "image"
        THEN [outcome |-> "return", render |-> _render_state_as_image(st, vis)]
        ELSE IF render_as = "human-readable"
        THEN [outcome |-> "return", render |-> _render_state_as_human_readable(st, vis)]
        ELSE [outcome |-> "return", render |-> _render_state_as_string(st, vis)]

render_state(st, player_name) ==
    LET vis == _visible_grid(st, player_name)
    IN  IF render_as \notin {"image", "string", "human-readable"}
        THEN [outcome |-> "ValueError", render |-> <<>>]
        ELSE IF vis.outcome # "return"
        THEN [outcome |-> vis.outcome, render |-> <<>>]
        ELSE IF render_as = "image"
        THEN [outcome |-> "return", render |-> _render_state_as_image(st, vis)]
        ELSE IF render_as = "string"
        THEN [outcome |-> "return", render |-> _render_state_as_string(st, vis)]
        ELSE [outcome |-> "return", render |-> _render_state_as_human_readable(st, vis)]

_create_observation(text_content, rendered_state) ==
    IF render_as = "image"
    THEN [role |-> "user", content |-> <<text_content, "[State image shown below]">>,
          image |-> <<rendered_state>>]
    ELSE [role |-> "user", content |-> <<text_content, rendered_state>>]

\* update_observations as its contract prescribes: one observation per
\* player, from the pending warning and render_state(player.name)
RECURSIVE ObserveFrom(_, _, _)
ObserveFrom(i, st, obs) ==
    IF i > Len(players) THEN [outcome |-> "return", observations |-> obs]
    ELSE LET r == render_state(st, name[players[i]])
         IN  IF r.outcome # "return"
             THEN [outcome |-> r.outcome, observations |-> obs]
             ELSE ObserveFrom(i + 1, st,
                     DictSet(obs, name[players[i]], _create_observation(st["warning"], r.render)))

\* mutant: the observations are left as they are
update_observations_stale(st, obs) == [outcome |-> "return", observations |-> obs]

update_observations(st, obs) == ObserveFrom(1, st, obs)

\* ------------------------------------------------------------ info / reward
startswith(key, prefix) == FirstChar(key) = prefix

\* mutant: the snapshot keeps the private fields
info_unfiltered(st) == st

info(st) == [key \in {k \in DOMAIN st : ~startswith(k, "_")} |-> st[key]]

\* mutant: a terminating step earns nothing
reward_zero_at_end(st) == IF st["aborted"] \/ st["terminated"] THEN 0 ELSE 1

reward(st) == IF st["aborted"] THEN 0 ELSE 1

\* mutant: the cap compared with > instead of >=
_max_moves_reached_strict(st) == max_moves # NoneInt /\ st["moves"] > max_moves

_max_moves_reached(st) == max_moves # NoneInt /\ st["moves"] >= max_moves

\* ------------------------------------------------------------- validation
\* mutant: the reserved tag is not recognised
_action_violates_format_never(st, action) == [result |-> FALSE, state |-> st]

_action_violates_format(st, action) ==
    IF action.action_type = "violated_format"
    THEN [result |-> TRUE, state |-> [st EXCEPT !["warning"] = FormatWarning]]
    ELSE [result |-> FALSE, state |-> st]

\* KeyError when no action space was set for the player's name
_action_not_in_action_space(st, player, action) ==
    IF name[player] \notin DOMAIN action_spaces
    THEN [outcome |-> "KeyError", result |-> FALSE, state |-> st]
    ELSE IF action.action_type \notin action_spaces[name[player]]
    THEN [outcome |-> "return", result |-> TRUE,
          state |-> [st EXCEPT !["warning"] = ActionSpaceWarning]]
    ELSE [outcome |-> "return", result |-> FALSE, state |-> st]

\* The game's _is_action_valid_in_state hook routes the move through the
\* grid's _action_valid_in_state; KeyError when the player has no position
_is_action_valid_in_state(st, player, action) ==
    IF name[player] \notin DOMAIN st["_player_positions"]
    THEN [outcome |-> "KeyError", valid |-> FALSE, warning |-> NoWarning]
    ELSE [outcome |-> "return"] @@ _action_valid_in_state(st, name[player], action.direction)

_action_invalid_in_state(st, player, action) ==
    LET r == _is_action_valid_in_state(st, player, action)
    IN  IF r.outcome # "return"
        THEN [outcome |-> r.outcome, result |-> FALSE, state |-> st]
        ELSE IF ~r.valid
        THEN [outcome |-> "return", result |-> TRUE,
              state |-> [st EXCEPT !["warning"] = r.warning]]
        ELSE [outcome |-> "return", result |-> FALSE, state |-> st]

\* mutant: the missing action_type goes unnoticed
MissingActionType_ignored(action) == FALSE

\* line 182: action.get("action_type") is None
MissingActionType(action) == action.action_type = NoType

\* mutant: the three checks joined without short-circuit, every one evaluated
_is_action_valid_eager(st, player, action) ==
    LET f == _action_violates_format(st, action)
        a == _action_not_in_action_space(f.state, player, action)
        i == _action_invalid_in_state(a.state, player, action)
        all == <<Call("_action_violates_format"), Call("_action_not_in_action_space"),
                 Call("_action_invalid_in_state")>>
    IN  IF MissingActionType(action)
        THEN [outcome |-> "ValueError", valid |-> FALSE, state |-> st, trace |-> <<>>]
        ELSE IF a.outcome # "return"
        THEN [outcome |-> a.outcome, valid |-> FALSE, state |-> a.state, trace |-> all]
        ELSE IF i.outcome # "return"
        THEN [outcome |-> i.outcome, valid |-> FALSE, state |-> i.state, trace |-> all]
        ELSE [outcome |-> "return", valid |-> ~(f.result \/ a.result \/ i.result),
              state |-> i.state, trace |-> all]

\* _is_action_valid: outcome, verdict, state and the checks evaluated
_is_action_valid(st, player, action) ==
    IF MissingActionType(action)
    THEN [outcome |-> "ValueError", valid |-> FALSE, state |-> st, trace |-> <<>>]
    ELSE
    LET f == _action_violates_format(st, action)
        a == _action_not_in_action_space(f.state, player, action)
        i == _action_invalid_in_state(a.state, player, action)
        tf == <<Call("_action_violates_format")>>
        ta == Append(tf, Call("_action_not_in_action_space"))
        ti == Append(ta, Call("_action_invalid_in_state"))
    IN  IF f.result
        THEN [outcome |-> "return", valid |-> FALSE, state |-> f.state, trace |-> tf]
        ELSE IF a.outcome # "return" \/ a.result
        THEN [outcome |-> a.outcome, valid |-> FALSE, state |-> a.state, trace |-> ta]
        ELSE IF i.outcome # "return" \/ i.result
        THEN [outcome |-> i.outcome, valid |-> FALSE, state |-> i.state, trace |-> ti]
        ELSE [outcome |-> "return", valid |-> TRUE, state |-> i.state, trace |-> ti]

\* The game's _update_state_through_action hook applies the move
_update_state_through_action(st, objs, player, action) ==
    _move_player(st, objs, name[player], action.direction)

\* ---------------------------------------------------- GameEnvironment.step
Raised(exc, st, objs, obs, tr) ==
    [outcome |-> exc, state |-> st, objects |-> objs, observations |-> obs,
     reward |-> 0, terminated |-> FALSE, aborted |-> FALSE, info |-> <<>>, trace |-> tr]

Returned(rew, st, objs, obs, tr) ==
    [outcome |-> "return", state |-> st, objects |-> objs, observations |-> obs,
     reward |-> rew, terminated |-> st["terminated"], aborted |-> st["aborted"],
     info |-> info(st), trace |-> tr]

\* lines 161-170: observations, render, info, reward
StepTail(st, objs, player, tr) ==
    LET o == update_observations(st, observations)
        r == render_state(st, name[player])
        t1 == Append(tr, Call("update_observations"))
        t2 == Append(t1, Call("render_state"))
        t3 == t2 \o <<Call("info"), Call("reward")>>
    IN  IF o.outcome # "return" THEN Raised(o.outcome, st, objs, o.observations, t1)
        ELSE IF r.outcome # "return" THEN Raised(r.outcome, st, objs, o.observations, t2)
        ELSE Returned(reward(st), st, objs, o.observations, t3)

\* mutant: success survives from the step before
ClearFlags_keep_success(st) ==
    [key \in (DOMAIN st) \cup {"aborted", "terminated", "success"} |->
        IF key \in {"aborted", "terminated"} \/ key \notin DOMAIN st THEN FALSE ELSE st[key]]

\* lines 142-144: the three flags are cleared (created when absent)
ClearFlags(st) ==
    [key \in (DOMAIN st) \cup {"aborted", "terminated", "success"} |->
        IF key \in {"aborted", "terminated", "success"} THEN FALSE ELSE st[key]]

\* lines 149-150: the move cap terminates and aborts
CapCutoff(st) == [st EXCEPT !["terminated"] = TRUE, !["aborted"] = TRUE]

\* mutant: an invalid action also ends the episode
MarkAborted_terminating(st) == [st EXCEPT !["aborted"] = TRUE, !["terminated"] = TRUE]

\* line 158: an invalid action aborts the step
MarkAborted(st) == [st EXCEPT !["aborted"] = TRUE]

\* won is what the game's check_won returns for the state after the action
step(player, action, won) ==
    LET s0 == ClearFlags(state)
    IN  IF "moves" \notin DOMAIN s0
        THEN Raised("KeyError", s0, objects, observations, <<>>)
        ELSE
        LET s1 == [s0 EXCEPT !["moves"] = @ + 1]
            t1 == <<Call("_max_moves_reached")>>
        IN  IF _max_moves_reached(s1)
            THEN Returned(0, CapCutoff(s1), objects, observations, Append(t1, Call("info")))
            ELSE
            LET v == _is_action_valid(s1, player, action)
                t2 == Append(t1, Call("_is_action_valid")) \o v.trace
                      \o (IF v.outcome # "return" THEN <<>>
                          ELSE <<CallArg("return:_is_action_valid", IF v.valid THEN 1 ELSE 0)>>)
            IN  IF v.outcome # "return"
                THEN Raised(v.outcome, v.state, objects, observations, t2)
                ELSE IF v.valid
                THEN LET u == _update_state_through_action(v.state, objects, player, action)
                         t3 == Append(t2, Call("_update_state_through_action"))
                         s3 == [u.state EXCEPT !["terminated"] = won[1], !["success"] = won[2]]
                     IN  IF u.outcome # "return"
                         THEN Raised(u.outcome, u.state, u.objects, observations, t3)
                         ELSE StepTail(s3, u.objects, player, Append(t3, Call("check_won")))
                ELSE StepTail(MarkAborted(v.state), objects, player, t2)

\* ------------------------------------------------------------------ inputs
Directions == {"n", "s", "e", "w", "x"}

Actions ==
    {[action_type |-> "move", direction |-> d] : d \in Directions}
    \cup {[action_type |-> t, direction |-> ""] : t \in {"violated_format", "jump", NoType}}

ActionSpaces == {{"move"}, {"move", "violated_format"}}

RenderModes == {"string"}

\* the three recognised values of render_as and one that is not
AllRenderModes == {"image", "string", "human-readable", "ascii"}

AllPlayers == 1 .. MaxPlayers

NoAction == [action_type |-> NoType, direction |-> ""]

Ret(op, player, action, r) ==
    [op |-> op, player |-> player, action_type |-> action.action_type, outcome |-> r.outcome,
     reward |-> r.reward, terminated |-> r.terminated, aborted |-> r.aborted, info |-> r.info]

\* what a render can be asked for: None, or a display name
PlayerNames == {NoneInt} \cup (1 .. MaxPlayers)

\* positions a game places an object at: cells, and places outside the grid
Placements == {<<0, 0>>, <<0, width>>, <<0, -1>>, <<-1, 0>>, <<height, 0>>}

\* the actions of a game of moves east, west and south
GridActions ==
    {[action_type |-> "move", direction |-> d] : d \in {"e", "w", "s"}}
    \cup {[action_type |-> "violated_format", direction |-> ""]}

\* check_won for a game that goes on
Ongoing == <<FALSE, TRUE>>

Plain(op) ==
    [op |-> op, player |-> NoPlayer, action_type |-> NoType, outcome |-> "return",
     reward |-> 0, terminated |-> FALSE, aborted |-> FALSE, info |-> <<>>]

\* ------------------------------------------------------------------- Init
\* EnvGameMaster.__init__ and InclusiveGridEnvironment.__init__
Constructed ==
    /\ state = GridConstructedState
    /\ action_spaces = EmptyDict
    /\ observations = EmptyDict
    /\ players = <<>>
    /\ objects = <<>>
    /\ players_by_names = <<>>
    /\ name = [p \in AllPlayers |-> 0]
    /\ current_player = NoPlayer
    /\ current_player_idx = 0
    /\ current_round = 0
    /\ ret = Plain("__init__")
    /\ trace = <<>>
    /\ calls = 0
    /\ cleanSteps = <<0>>
    /\ visited = EmptyDict

Init ==
    /\ max_moves \in {NoneInt} \cup (1 .. MaxMovesCap)
    /\ width = MaxWidth
    /\ height = MaxHeight
    /\ render_as \in RenderModes
    /\ limited_visibility = FALSE
    /\ show_explored \in BOOLEAN
    /\ Constructed

InitMaster ==
    /\ max_moves \in {NoneInt, MaxMovesCap}
    /\ width = MaxWidth
    /\ height = MaxHeight
    /\ render_as \in RenderModes
    /\ limited_visibility = FALSE
    /\ show_explored = FALSE
    /\ Constructed

\* ------------------------------------------------------- environment actions
\* history: under limited visibility, the position recorded for each player
\* name is added to the positions that name has occupied since reset
Visited(v, st) ==
    IF ~limited_visibility \/ "moves" \notin DOMAIN st THEN EmptyDict
    ELSE [n \in DOMAIN st["_player_positions"] |->
             (IF n \in DOMAIN v THEN v[n] ELSE {}) \cup {st["_player_positions"][n]}]

\* InclusiveGridEnvironment.reset
reset ==
    /\ state' = ResetState
    /\ objects' = ResetObjects
    /\ observations' = EmptyDict
    /\ action_spaces' = EmptyDict
    /\ calls' = 0
    /\ visited' = Visited(EmptyDict, ResetState)
    /\ ret' = Plain("reset")
    /\ trace' = <<>>
    /\ UNCHANGED <<cfgVars, players, gmVars, cleanSteps>>

set_action_space(player, action_space) ==
    /\ player \in Range(players)
    /\ action_spaces' = DictSet(action_spaces, name[player], action_space)
    /\ ret' = Plain("set_action_space")
    /\ trace' = <<>>
    /\ UNCHANGED <<cfgVars, state, observations, players, objects, gmVars, histVars>>

\* GameEnvironment.step called directly
EnvStep(player, action, won) ==
    /\ player \in Range(players)
    /\ calls < MaxCalls
    /\ \E r \in {step(player, action, won)} :
           /\ state' = r.state
           /\ objects' = r.objects
           /\ observations' = r.observations
           /\ ret' = Ret("step", player, action, r)
           /\ trace' = r.trace
           /\ visited' = Visited(visited, r.state)
    /\ calls' = calls + 1
    /\ UNCHANGED <<cfgVars, action_spaces, players, gmVars, cleanSteps>>

\* GridEnvironment._add_object called by a game: with a new object at
\* position pos when o = Len(objects) + 1, else with the heap object o again
GridAdd(o, pos) ==
    /\ o \in 1 .. Len(objects) + 1
    /\ o <= MaxObjects
    /\ calls < MaxCalls
    /\ calls' = calls + 1
    /\ LET objs == IF o \in DOMAIN objects THEN objects
                   ELSE Append(objects, [position |-> pos, name |-> 0, player |-> NoPlayer])
       IN  /\ objects' = objs
           /\ trace' = <<CallArg("_add_object", o)>>
           /\ IF "_grid" \in DOMAIN state
              THEN \E r \in {_add_object(state["_grid"], objs, o)} :
                      /\ ret' = [Plain("_add_object") EXCEPT !.outcome = r.outcome]
                      /\ state' = [state EXCEPT !["_grid"] = r.grid]
              ELSE /\ ret' = [Plain("_add_object") EXCEPT !.outcome =
                                 IF InGrid(objs[o].position) THEN "KeyError" ELSE "ValueError"]
                   /\ state' = state
    /\ UNCHANGED <<cfgVars, action_spaces, observations, players, gmVars, cleanSteps, visited>>

\* GridEnvironment._remove_object called by a game with a heap object, on
\* an environment that was reset
GridRemove(o) ==
    /\ o \in DOMAIN objects
    /\ "_grid" \in DOMAIN state
    /\ calls < MaxCalls
    /\ calls' = calls + 1
    /\ \E r \in {_remove_object(state["_grid"], objects, o)} :
          /\ state' = [state EXCEPT !["_grid"] = r.grid]
          /\ ret' = [Plain("_remove_object") EXCEPT !.outcome = r.outcome]
    /\ trace' = <<CallArg("_remove_object", o)>>
    /\ UNCHANGED <<cfgVars, action_spaces, observations, players, objects, gmVars,
                   cleanSteps, visited>>

\* GridEnvironment._get_objects_at called by a game on an environment that
\* was reset; the list it returned is kept in trace
GridGet(pos) ==
    /\ "_grid" \in DOMAIN state
    /\ ret' = Plain("_get_objects_at")
    /\ trace' = <<CallArg("_get_objects_at", pos),
                  CallArg("return:_get_objects_at", _get_objects_at(state["_grid"], pos))>>
    /\ UNCHANGED <<cfgVars, envVars, gmVars, histVars>>

\* InclusiveGridEnvironment._move_player called by a game for a player
\* that has a recorded position
GridMove(player_name, direction) ==
    /\ "moves" \in DOMAIN state
    /\ player_name \in DOMAIN state["_player_positions"]
    /\ calls < MaxCalls
    /\ calls' = calls + 1
    /\ \E r \in {_move_player(state, objects, player_name, direction)} :
          /\ state' = r.state
          /\ objects' = r.objects
          /\ visited' = Visited(visited, r.state)
          /\ ret' = [Plain("_move_player") EXCEPT !.outcome = r.outcome]
    /\ trace' = <<CallArg("_move_player", [player_name |-> player_name, direction |-> direction])>>
    /\ UNCHANGED <<cfgVars, action_spaces, observations, players, gmVars, cleanSteps>>

\* render_state(player_name) called on an environment that was reset; the
\* mask _visible_grid computed for it is kept in trace
render(player_name) ==
    /\ "moves" \in DOMAIN state
    /\ ret' = [Plain("render_state") EXCEPT !.outcome = render_state(state, player_name).outcome]
    /\ trace' = <<CallArg("_visible_grid", player_name),
                  CallArg("return:_visible_grid", _visible_grid(state, player_name)),
                  CallArg("return:render_state", render_state(state, player_name).render)>>
    /\ UNCHANGED <<cfgVars, envVars, gmVars, histVars>>

\* ------------------------------------------------------------ EnvGameMaster
get_players == [i \in 1 .. Len(players_by_names) |-> players_by_names[i].player]

RosterKeys == {players_by_names[i].key : i \in 1 .. Len(players_by_names)}

\* mutant: the display name is not advanced past the roster's size
display_name_stuck == Len(players_by_names)

\* line 64: "Player k" for the k-th entry of the roster
display_name == Len(players_by_names) + 1

\* add_player, called from the game's _on_setup before setup completes
add_player(player) ==
    /\ current_player = NoPlayer
    /\ Len(players_by_names) < MaxPlayers
    /\ LET new_name == display_name
       IN  /\ name' = [name EXCEPT ![player] = new_name]
           /\ IF new_name \in RosterKeys
              THEN /\ ret' = [Plain("add_player") EXCEPT !.outcome = "ValueError"]
                   /\ trace' = <<Call("register_many")>>
                   /\ UNCHANGED <<players_by_names, players>>
              ELSE /\ players_by_names' = Append(players_by_names, [key |-> new_name, player |-> player])
                   /\ players' = Append(players, player)
                   /\ ret' = Plain("add_player")
                   /\ trace' = <<Call("register_many"), CallArg("log_player", new_name),
                                 Call("game_environment.add_player")>>
    /\ UNCHANGED <<cfgVars, state, action_spaces, observations, objects,
                   current_player, current_player_idx, current_round, histVars>>

\* setup: _on_setup has added the players and reset the environment
setup ==
    /\ current_player_idx < Len(players_by_names)
    /\ current_player' = get_players[current_player_idx + 1]
    /\ ret' = Plain("setup")
    /\ trace' = <<Call("_on_setup"), Call("_on_before_game")>>
    /\ cleanSteps' = <<0>>
    /\ UNCHANGED <<cfgVars, envVars, players_by_names, name, current_player_idx,
                   current_round, calls, visited>>

\* mutant: the turn passes after an aborted action too
_should_pass_turn_always(aborted) == TRUE

_should_pass_turn(aborted) == IF aborted THEN FALSE ELSE TRUE

_next_player_idx == (current_player_idx + 1) % Len(players_by_names)

\* mutant: a round starts with the second player
_start_next_round_late(idx) == idx = 1

_start_next_round(idx) == idx = 0

\* mutant: the synthesized action is a move in no direction
_violated_format_action_move == [action_type |-> "move", direction |-> ""]

_violated_format_action == [action_type |-> "violated_format", direction |-> ""]

\* mutant: the test on the reward is inverted
CountsViolation_rewarded(aborted, rew) == aborted /\ rew # 0

\* line 136: the test that guards count_request_violation
CountsViolation(aborted, rew) == aborted /\ rew = 0

\* mutant: the round counter is incremented after the before-round hook
RoundBoundary_increment_last(tr, round) ==
    [trace |-> tr \o <<CallArg("_on_after_round", round), CallArg("log_next_round", round),
                        CallArg("_on_before_round", round)>>,
     current_round |-> round + 1]

\* lines 148-152: after-round hook, increment, round-advance log,
\* before-round hook; each call is recorded with the round it finds
RoundBoundary(tr, round) ==
    [trace |-> tr \o <<CallArg("_on_after_round", round), CallArg("log_next_round", round + 1),
                        CallArg("_on_before_round", round + 1)>>,
     current_round |-> round + 1]

BoolInt(b) == IF b THEN 1 ELSE 0

\* mutant: lose is scored without looking at aborted
_end_game_lose_ignores_aborted(final_state) ==
    LET aborted == BoolInt(final_state["aborted"])
        success == BoolInt(final_state["success"])
        lose == BoolInt(success = 0)
    IN  <<CallArg("log_key:Aborted", aborted), CallArg("log_key:Success", success),
          CallArg("log_key:Lose", lose)>>
        \o [i \in 1 .. Len(players_by_names) |-> CallArg("player.reset", get_players[i])]

\* _end_game: the three metrics, then every player is reset
_end_game(final_state) ==
    LET aborted == BoolInt(final_state["aborted"])
        success == BoolInt(final_state["success"])
        lose == BoolInt(success = 0 /\ aborted = 0)
    IN  <<CallArg("log_key:Aborted", aborted), CallArg("log_key:Success", success),
          CallArg("log_key:Lose", lose)>>
        \o [i \in 1 .. Len(players_by_names) |-> CallArg("player.reset", get_players[i])]

\* mutant: scoring runs before the after-game hook and the game-end log
AfterTermination_scoring_first(tr, final_state) ==
    tr \o _end_game(final_state) \o <<Call("_on_after_game"), Call("log_game_end")>>

\* lines 139-143: after-game hook, game-end log, scoring
AfterTermination(tr, final_state) ==
    tr \o <<Call("_on_after_game"), Call("log_game_end")>> \o _end_game(final_state)

\* EnvGameMaster.step: response_valid is what _response_valid answers for
\* the response, parsed what _parse_action_from_response makes of it
master_step(response_valid, parsed, won) ==
    /\ current_player # NoPlayer
    /\ current_round < MaxRounds
    /\ calls < MaxCalls
    /\ \E action \in {IF ~response_valid THEN _violated_format_action ELSE parsed} :
       \E r \in {step(current_player, action, won)} :
       LET t0 == <<CallArg("_response_valid", [player |-> current_player, answer |-> response_valid]),
                   IF ~response_valid THEN Call("_violated_format_action")
                   ELSE CallArg("_parse_action_from_response", parsed),
                   CallArg("game_environment.step", [player |-> current_player, action |-> action])>>
                 \o r.trace
           t1 == t0 \o <<Call("log_to_self:state"), CallArg("log_to_self:reward", r.reward)>>
           t2 == IF CountsViolation(r.aborted, r.reward)
                 THEN Append(t1, Call("count_request_violation")) ELSE t1
           pass == _should_pass_turn(r.aborted)
           idx == IF pass THEN _next_player_idx ELSE current_player_idx
       IN  /\ state' = r.state
           /\ objects' = r.objects
           /\ observations' = r.observations
           /\ visited' = Visited(visited, r.state)
           /\ ret' = Ret("master_step", current_player, action, r)
           /\ IF r.outcome # "return"
              THEN /\ trace' = t0
                   /\ UNCHANGED <<current_player, current_player_idx, current_round>>
              ELSE IF r.terminated
              THEN /\ trace' = AfterTermination(t2, r.state)
                   /\ UNCHANGED <<current_player, current_player_idx, current_round>>
              ELSE /\ current_player_idx' = idx
                   /\ current_player' = IF pass THEN get_players[idx + 1] ELSE current_player
                   /\ IF _start_next_round(idx)
                      THEN LET b == RoundBoundary(IF pass THEN Append(t2, Call("_next_player"))
                                                  ELSE t2, current_round)
                           IN  /\ current_round' = b.current_round
                               /\ trace' = b.trace
                      ELSE /\ current_round' = current_round
                           /\ trace' = IF pass THEN Append(t2, Call("_next_player")) ELSE t2
           /\ cleanSteps' = IF cleanSteps # Dirty /\ r.outcome = "return"
                                /\ ~r.aborted /\ ~r.terminated
                             THEN <<cleanSteps[1] + 1>> ELSE Dirty
    /\ calls' = calls + 1
    /\ UNCHANGED <<cfgVars, action_spaces, players, players_by_names, name>>

\* mutant: is_done reads the success flag
is_done_success == IF "success" \in DOMAIN state THEN state["success"] ELSE FALSE

\* is_done: state.get("terminated", False)
is_done == IF "terminated" \in DOMAIN state THEN state["terminated"] ELSE FALSE

\* has_started: a current player is set and the environment has a state;
\* the environment's state is a dict from its construction on
has_started == current_player # NoPlayer /\ DOMAIN state # {}

\* the two queries, called by the runner between steps
IsDone ==
    /\ ret' = Plain("is_done")
    /\ trace' = <<CallArg("return:is_done", is_done)>>
    /\ UNCHANGED <<cfgVars, envVars, gmVars, histVars>>

HasStarted ==
    /\ ret' = Plain("has_started")
    /\ trace' = <<CallArg("return:has_started", has_started)>>
    /\ UNCHANGED <<cfgVars, envVars, gmVars, histVars>>

\* ------------------------------------------------- Player.batch_response
\* The model collaborator's batched call: one (prompt, raw, text) triple per
\* context, in input order; the text a model gives for a context is the
\* pair of the two.
\* mutant: the batch comes back in reverse order
generate_batch_response_reversed(model, ctxs) ==
    [i \in DOMAIN ctxs |->
        [prompt |-> ctxs[Len(ctxs) + 1 - i], raw |-> <<>>, text |-> <<model, ctxs[Len(ctxs) + 1 - i]>>]]

generate_batch_response(model, ctxs) ==
    [i \in DOMAIN ctxs |-> [prompt |-> ctxs[i], raw |-> <<>>, text |-> <<model, ctxs[i]>>]]

\* the input indices of the players that use the model of player i
SameModel(models, i) ==
    SelectSeq([j \in DOMAIN models |-> j], LAMBDA j : models[j] = models[i])

\* the keys of the result: the caller's row ids, or 0 .. N-1
RowKeys(models, row_ids) ==
    IF row_ids.given THEN row_ids.ids ELSE [i \in DOMAIN models |-> i - 1]

\* batch_response: players grouped by model, one batched call per distinct
\* model, the responses handed back under the row key of their player
batch_response(models, contexts, row_ids) ==
    LET keys == RowKeys(models, row_ids)
        answer(i) ==
            LET group == SameModel(models, i)
                out == generate_batch_response(models[i], [k \in DOMAIN group |-> contexts[group[k]]])
                rank == CHOOSE k \in DOMAIN group : group[k] = i
            IN  out[rank].text
    IN  [r \in Range(keys) |->
            LET i == CHOOSE j \in DOMAIN keys : keys[j] = r
            IN  <<contexts[i], answer(i)>>]

\* the batched calls batch_response makes: one per distinct model
BatchCalls(models, contexts) ==
    LET firsts == SelectSeq([j \in DOMAIN models |-> j], LAMBDA j : SameModel(models, j)[1] = j)
    IN  [k \in DOMAIN firsts |->
            CallArg("generate_batch_response",
                    [model |-> models[firsts[k]],
                     contexts |-> [m \in DOMAIN SameModel(models, firsts[k]) |->
                                      contexts[SameModel(models, firsts[k])[m]]]])]

ModelNames == {"model_a", "model_b"}

Contexts == {"ctx1", "ctx2"}

RowIdValues == {10, 20, 30}

\* row_ids omitted, or N pairwise distinct row ids
RowIdChoices(N) ==
    {[given |-> FALSE, ids |-> <<>>]}
    \cup {[given |-> TRUE, ids |-> q] :
            q \in {q \in [1 .. N -> RowIdValues] : \A i, j \in 1 .. N : q[i] = q[j] => i = j}}

batch(models, contexts, row_ids) ==
    /\ ret' = Plain("batch_response")
    /\ trace' = <<CallArg("batch_response",
                          [models |-> models, contexts |-> contexts, row_ids |-> row_ids])>>
                 \o BatchCalls(models, contexts)
                 \o <<CallArg("return:batch_response", batch_response(models, contexts, row_ids))>>
    /\ UNCHANGED <<cfgVars, envVars, gmVars, histVars>>

\* ------------------------------------- AlephAlphaModel.generate_response
\* line 43: @retry(tries=3, delay=0)
tries == 3

\* lines 59-76: the prompt text built from the message history
RECURSIVE PromptFrom(_, _, _)
PromptFrom(control, messages, i) ==
    IF i > Len(messages) THEN <<>>
    ELSE LET m == messages[i]
             part == IF m.role = "assistant"
                     THEN <<IF control THEN "### Response:" ELSE "AI_PROMPT", m.content>>
                     ELSE IF m.role = "user"
                     THEN <<IF control THEN "### Instruction:" ELSE "HUMAN_PROMPT", m.content>>
                     ELSE <<>>
         IN  part \o PromptFrom(control, messages, i + 1)

prompt_text(control, messages) ==
    PromptFrom(control, messages, 1) \o (IF control THEN <<>> ELSE <<"AI_PROMPT">>)

\* mutant: the attempt that uses up the last try is followed by one more
RECURSIVE retry_one_more(_, _, _)
retry_one_more(left, fails, k) ==
    IF ~fails[k] THEN [outcome |-> "return", attempts |-> k]
    ELSE IF left - 1 < 0 THEN [outcome |-> "Exception", attempts |-> k]
    ELSE retry_one_more(left - 1, fails, k + 1)

\* the retry decorator: the call is attempted while tries are left; the
\* failure that uses up the last try is raised to the caller.
\* left = tries left, k = number of the attempt, fails[k] = attempt k raises
RECURSIVE retry(_, _, _)
retry(left, fails, k) ==
    IF ~fails[k] THEN [outcome |-> "return", attempts |-> k]
    ELSE IF left - 1 = 0 THEN [outcome |-> "Exception", attempts |-> k]
    ELSE retry(left - 1, fails, k + 1)

Roles == {"system", "user", "assistant"}

Contents == {"a", "b"}

Messages == UNION {[1 .. n -> [role : Roles, content : Contents]] : n \in 1 .. 2}

\* which of the attempts the remote API would fail
Failures == [1 .. MaxAttempts -> BOOLEAN]

\* generate_response(messages) on a model whose id does (control) or does
\* not contain "control"
generate_response(control, messages, fails) ==
    \E r \in {retry(tries, fails, 1)} :
        /\ ret' = [Plain("generate_response") EXCEPT !.outcome = r.outcome]
        /\ trace' = <<CallArg("generate_response", [messages |-> messages, failures |-> fails])>>
                     \o [k \in 1 .. r.attempts |->
                            CallArg("client.complete", prompt_text(control, messages))]
                     \o (IF r.outcome = "return"
                         THEN <<CallArg("return:generate_response",
                                        [prompt |-> prompt_text(control, messages),
                                         attempt |-> r.attempts])>>
                         ELSE <<>>)
        /\ UNCHANGED <<cfgVars, envVars, gmVars, histVars>>

\* ------------------------------------------------------------ specification
\* The environment driven directly
Next ==
    \/ reset
    \/ \E p \in AllPlayers, sp \in ActionSpaces : set_action_space(p, sp)
    \/ \E p \in AllPlayers, a \in Actions, won \in BOOLEAN \X BOOLEAN : EnvStep(p, a, won)
    \/ \E p \in AllPlayers \ Range(get_players) : add_player(p)

Spec == Init /\ [][Next]_vars

\* The environment driven by the orchestrator
NextMaster ==
    \/ reset
    \/ \E p \in AllPlayers, sp \in ActionSpaces : set_action_space(p, sp)
    \/ \E p \in AllPlayers \ Range(get_players) : add_player(p)
    \/ current_player = NoPlayer /\ setup
    \/ \E v \in BOOLEAN, a \in Actions, won \in BOOLEAN \X BOOLEAN : master_step(v, a, won)

SpecMaster == InitMaster /\ [][NextMaster]_vars

\* The roster: the orchestrator with players added any number of times
InitRoster ==
    /\ max_moves = NoneInt
    /\ width = MaxWidth
    /\ height = MaxHeight
    /\ render_as \in RenderModes
    /\ limited_visibility = FALSE
    /\ show_explored = FALSE
    /\ Constructed

NextRoster ==
    \/ reset
    \/ \E p \in AllPlayers : set_action_space(p, {"move"})
    \/ \E p \in AllPlayers : add_player(p)
    \/ current_player = NoPlayer /\ setup
    \/ \E v \in BOOLEAN, a \in Actions, won \in BOOLEAN \X BOOLEAN : master_step(v, a, won)

SpecRoster == InitRoster /\ [][NextRoster]_vars

\* The orchestrator with its queries, and setup callable at any time
InitOrch ==
    /\ max_moves \in {NoneInt, MaxMovesCap}
    /\ width = MaxWidth
    /\ height = MaxHeight
    /\ render_as \in RenderModes
    /\ limited_visibility = FALSE
    /\ show_explored = FALSE
    /\ Constructed

NextOrch ==
    \/ reset
    \/ \E p \in AllPlayers : set_action_space(p, {"move"})
    \/ \E p \in AllPlayers \ Range(get_players) : add_player(p)
    \/ setup
    \/ \E v \in BOOLEAN, a \in GridActions, won \in BOOLEAN \X BOOLEAN : master_step(v, a, won)
    \/ IsDone
    \/ HasStarted

SpecOrch == InitOrch /\ [][NextOrch]_vars

\* The renderers: every value of render_as, with and without a move cap
InitRender ==
    /\ max_moves \in {NoneInt, MaxMovesCap}
    /\ width = MaxWidth
    /\ height = MaxHeight
    /\ render_as \in AllRenderModes
    /\ limited_visibility = FALSE
    /\ show_explored = FALSE
    /\ Constructed

NextRender ==
    \/ reset
    \/ \E p \in AllPlayers : set_action_space(p, {"move"})
    \/ \E p \in AllPlayers \ Range(get_players) : add_player(p)
    \/ \E p \in AllPlayers, a \in GridActions : EnvStep(p, a, Ongoing)
    \/ \E n \in PlayerNames : render(n)

SpecRender == InitRender /\ [][NextRender]_vars

\* Batched responses of up to MaxBatch players
NextBatch ==
    \E N \in 1 .. MaxBatch :
        \E models \in [1 .. N -> ModelNames], contexts \in [1 .. N -> Contexts],
           row_ids \in RowIdChoices(N) : batch(models, contexts, row_ids)

SpecBatch == InitRoster /\ [][NextBatch]_vars

\* A game of moves on a wider grid, with and without a move cap
InitMove ==
    /\ max_moves \in {NoneInt, MaxMovesCap}
    /\ width = MaxGridWidth
    /\ height = MaxGridHeight
    /\ render_as \in RenderModes
    /\ limited_visibility = FALSE
    /\ show_explored = FALSE
    /\ Constructed

NextMove ==
    \/ reset
    \/ \E p \in AllPlayers, sp \in ActionSpaces : set_action_space(p, sp)
    \/ \E p \in AllPlayers \ Range(get_players) : add_player(p)
    \/ \E p \in AllPlayers, a \in Actions : EnvStep(p, a, Ongoing)

SpecMove == InitMove /\ [][NextMove]_vars

\* The visibility engine: a wider grid under the three visibility regimes
InitGrid ==
    /\ max_moves = NoneInt
    /\ width = MaxGridWidth
    /\ height = MaxGridHeight
    /\ render_as \in RenderModes
    /\ limited_visibility \in BOOLEAN
    /\ show_explored \in BOOLEAN
    /\ Constructed

NextGrid ==
    \/ reset
    \/ \E p \in AllPlayers : set_action_space(p, {"move"})
    \/ \E p \in AllPlayers \ Range(get_players) : add_player(p)
    \/ \E p \in AllPlayers, a \in GridActions : EnvStep(p, a, Ongoing)
    \/ \E n \in PlayerNames : render(n)

SpecGrid == InitGrid /\ [][NextGrid]_vars

\* The text renderers on the larger grid, with objects a game stacks on the
\* first player's start cell
TextRenderModes == {"string", "human-readable"}

InitRenderGrid ==
    /\ max_moves = NoneInt
    /\ width = MaxGridWidth
    /\ height = MaxGridHeight
    /\ render_as \in TextRenderModes
    /\ limited_visibility \in BOOLEAN
    /\ show_explored \in BOOLEAN
    /\ Constructed

NextRenderGrid ==
    \/ reset
    \/ \E p \in AllPlayers : set_action_space(p, {"move"})
    \/ \E p \in AllPlayers \ Range(get_players) : add_player(p)
    \/ \E p \in AllPlayers, a \in GridActions : EnvStep(p, a, Ongoing)
    \/ \E o \in 1 .. MaxObjects : GridAdd(o, players_start[1])
    \/ \E n \in PlayerNames : render(n)

SpecRenderGrid == InitRenderGrid /\ [][NextRenderGrid]_vars

\* The remote model under any pattern of failing attempts
NextBackend ==
    \E control \in BOOLEAN, messages \in Messages, fails \in Failures :
        generate_response(control, messages, fails)

SpecBackend == InitRoster /\ [][NextBackend]_vars

\* The move primitive called by a game, next to the players' moves
NextPrimitive ==
    \/ reset
    \/ \E p \in AllPlayers : set_action_space(p, {"move"})
    \/ \E p \in AllPlayers \ Range(get_players) : add_player(p)
    \/ \E p \in AllPlayers, a \in GridActions : EnvStep(p, a, Ongoing)
    \/ \E n \in 1 .. MaxPlayers, d \in {"n", "s", "e", "w"} : GridMove(n, d)

SpecPrimitive == Init /\ [][NextPrimitive]_vars

\* The grid operations a game can call, next to the players' moves
InitGridOps ==
    /\ max_moves = NoneInt
    /\ width = MaxWidth
    /\ height = MaxHeight
    /\ render_as \in RenderModes
    /\ limited_visibility = FALSE
    /\ show_explored = FALSE
    /\ Constructed

NextGridOps ==
    \/ reset
    \/ \E p \in AllPlayers : set_action_space(p, {"move"})
    \/ \E p \in AllPlayers : add_player(p)
    \/ \E p \in AllPlayers, a \in GridActions : EnvStep(p, a, Ongoing)
    \/ \E o \in 1 .. MaxObjects, pos \in Placements : GridAdd(o, pos)
    \/ \E o \in 1 .. MaxObjects : GridRemove(o)
    \/ \E pos \in Placements \cup Cells : GridGet(pos)

SpecGridOps == InitGridOps /\ [][NextGridOps]_vars

\* ======================================================================
\* Properties
\* ======================================================================
WasReset == "moves" \in DOMAIN state

StepCalled == ret.op = "step" /\ WasReset

\* the validation checks the last step evaluated, in the order of evaluation
ValidationChecks ==
    SelectSeq([i \in DOMAIN trace |-> trace[i].call],
              LAMBDA c : c \in {"_action_violates_format", "_action_not_in_action_space",
                                "_action_invalid_in_state"})

\* C1: with max_moves = M, the M-th call to step after reset returns
\* terminated = true, aborted = true and reward 0, whatever the action and
\* whatever the calls before it did.
C1_MoveCap ==
    (StepCalled /\ max_moves # NoneInt /\ calls = max_moves)
        => (ret.outcome = "return" /\ ret.terminated /\ ret.aborted /\ ret.reward = 0)

C1_Witness ==
    /\ StepCalled /\ max_moves = 2 /\ calls = 2
    /\ ret.action_type = "move" /\ ret.terminated /\ ret.aborted /\ ret.reward = 0
    /\ state["warning"] = FormatWarning

\* C2: after every call to step exactly one of still-running, terminated with
\* success, terminated with failure and aborted holds of the state flags, and
\* success and aborted are never both true.
OutcomeClasses ==
    {c \in {"running", "success", "failure", "aborted"} :
        \/ c = "running" /\ ~state["terminated"] /\ ~state["aborted"]
        \/ c = "success" /\ state["terminated"] /\ state["success"]
        \/ c = "failure" /\ state["terminated"] /\ ~state["success"] /\ ~state["aborted"]
        \/ c = "aborted" /\ state["aborted"]}

C2_OneOutcomeClass ==
    ret.op = "step" => (Cardinality(OutcomeClasses) = 1 /\ ~(state["success"] /\ state["aborted"]))

C2_Witness ==
    /\ StepCalled /\ ret.outcome = "return"
    /\ OutcomeClasses = {"success"} /\ state["warning"] # NoWarning

\* C3: reset followed by info gives a snapshot without any key that starts
\* with "_" and with terminated, success, aborted false, moves 0 and an empty
\* warning, whatever happened before the reset and whichever private fields the
\* grid environments add.
C3_ResetInfo ==
    ret.op = "reset"
        => /\ \A key \in DOMAIN info(state) : FirstChar(key) # "_"
           /\ info(state) = [terminated |-> FALSE, success |-> FALSE, aborted |-> FALSE,
                             moves |-> 0, warning |-> NoWarning]

C3_Witness ==
    /\ ret.op = "reset" /\ Len(players) = 2 /\ show_explored
    /\ {"_grid", "_player_positions", "_explored"} \subseteq DOMAIN state
    /\ info(state)["moves"] = 0

\* the last step was cut off by the move cap
CutOff == max_moves # NoneInt /\ state["moves"] >= max_moves

\* C4 as claimed: a step whose action is tagged violated_format always ends
\* aborted with the format warning.
C4_AsClaimed ==
    (StepCalled /\ ret.action_type = "violated_format")
        => (state["aborted"] /\ state["warning"] = FormatWarning)

\* C4 as amended: a step that is not cut off by the move cap and whose action
\* is tagged violated_format ends aborted with the format warning, also when
\* the tag is in the acting player's action space.
C4_FormatViolationAborts ==
    (StepCalled /\ ret.action_type = "violated_format" /\ ~CutOff)
        => (state["aborted"] /\ ~state["terminated"] /\ state["warning"] = FormatWarning)

C4_Witness ==
    /\ StepCalled /\ ret.action_type = "violated_format" /\ ~CutOff
    /\ name[ret.player] \in DOMAIN action_spaces
    /\ "violated_format" \in action_spaces[name[ret.player]]
    /\ ret.aborted /\ state["warning"] = FormatWarning

\* C5: validation evaluates the checks in the order format violation,
\* membership in the player's action space, state-specific hook; it stops at
\* the first check that fails, and the warning left in the state is the one of
\* that check.
FirstFailing ==
    IF ret.action_type = "violated_format" THEN 1
    ELSE IF ret.action_type \notin action_spaces[name[ret.player]] THEN 2
    ELSE 3

C5_ValidationOrder ==
    (StepCalled /\ ret.outcome = "return" /\ Called("_is_action_valid"))
        => /\ ValidationChecks = SubSeq(<<"_action_violates_format", "_action_not_in_action_space",
                                         "_action_invalid_in_state">>, 1, FirstFailing)
           /\ ret.aborted =>
                 CASE FirstFailing = 1 -> state["warning"] = FormatWarning
                   [] FirstFailing = 2 -> state["warning"] = ActionSpaceWarning
                   [] OTHER -> state["warning"].args # <<>>

C5_Witness ==
    /\ StepCalled /\ ret.outcome = "return" /\ ret.aborted /\ ret.action_type = "jump"
    /\ ValidationChecks = <<"_action_violates_format", "_action_not_in_action_space">>
    /\ state["warning"] = ActionSpaceWarning

\* C6: when validation fails in a step that the move cap does not cut off, the
\* step sets aborted and a non-empty warning, calls neither the apply hook nor
\* check_won, leaves terminated and success false and changes no game-specific
\* state field: only moves, the flags and warning differ.
ValidationFailed ==
    \E i \in DOMAIN trace : trace[i] = CallArg("return:_is_action_valid", 0)

C6_InvalidActionFrame ==
    [][(ret'.op = "step" /\ ValidationFailed')
        => /\ state'["aborted"] /\ state'["warning"] # NoWarning
           /\ ~Called("_update_state_through_action")' /\ ~Called("check_won")'
           /\ ~state'["terminated"] /\ ~state'["success"]
           /\ state'["moves"] = state["moves"] + 1
           /\ DOMAIN state' = DOMAIN state
           /\ \A key \in DOMAIN state \ {"moves", "terminated", "success", "aborted", "warning"} :
                 state'[key] = state[key]
           /\ objects' = objects]_vars

C6_Witness ==
    /\ StepCalled /\ ValidationFailed /\ ret.action_type = "move"
    /\ state["warning"].args = <<0, -1>>
    /\ state["_player_positions"][name[ret.player]] = <<0, 0>>
    /\ Len(players) = 2 /\ state["aborted"]

\* C7 as claimed: every call to step with an action that has no action_type
\* raises ValueError.
C7_AsClaimed ==
    (StepCalled /\ ret.action_type = NoType) => ret.outcome = "ValueError"

\* C7 as amended: every call to step, after reset and not cut off by the move
\* cap, with an action that has no action_type raises ValueError instead of
\* returning a result.
C7_MissingActionTypeRaises ==
    (StepCalled /\ ret.action_type = NoType /\ ~CutOff) => ret.outcome = "ValueError"

C7_Witness ==
    /\ StepCalled /\ ret.action_type = NoType /\ ~CutOff /\ ret.outcome = "ValueError"
    /\ state["moves"] = 2

\* C8: with the default reward policy the reward a step returns is 0 exactly
\* when the step ended aborted and 1 otherwise, a terminating step included.
C8_DefaultReward ==
    (ret.op = "step" /\ ret.outcome = "return")
        => /\ ret.aborted = state["aborted"]
           /\ ret.reward = IF state["aborted"] THEN 0 ELSE 1

C8_Witness ==
    /\ ret.op = "step" /\ ret.outcome = "return"
    /\ ret.terminated /\ ~ret.aborted /\ ~state["success"] /\ ret.reward = 1

\* C9: with N registered players and no aborted or terminating step since
\* setup, the current player after k orchestrator steps is the one at roster
\* index k mod N and current_round is k div N.
C9_RoundRobin ==
    (current_player # NoPlayer /\ cleanSteps # Dirty)
        => LET k == cleanSteps[1]
               N == Len(players_by_names)
           IN  /\ current_player_idx = k % N
               /\ current_player = get_players[(k % N) + 1]
               /\ current_round = k \div N

C9_Witness ==
    /\ Len(players_by_names) = 2 /\ cleanSteps = <<3>>
    /\ current_player = get_players[2] /\ current_round = 1

\* C10: an orchestrator step whose action is aborted and not terminating
\* leaves current_player and current_player_idx as they were and the episode
\* goes on; a step that is neither aborted nor terminating advances the index
\* to (i + 1) mod N.
C10_TurnPass ==
    [][(ret'.op = "master_step" /\ ret'.outcome = "return" /\ ~ret'.terminated)
        => IF ret'.aborted
           THEN /\ current_player' = current_player
                /\ current_player_idx' = current_player_idx
                /\ ~state'["terminated"]
           ELSE /\ current_player_idx' = (current_player_idx + 1) % Len(players_by_names)
                /\ current_player' = get_players[current_player_idx' + 1]]_vars

C10_Witness ==
    /\ ret.op = "master_step" /\ ret.outcome = "return" /\ ret.aborted /\ ~ret.terminated
    /\ Len(players_by_names) = 2 /\ current_player_idx = 1 /\ ret.player = current_player

\* ----------------------------------------------------------------------
\* C11: every add_player call appends one entry to the roster, keyed with the
\* next display name, and the same player to the environment's player list,
\* removing and replacing nothing; so after k calls the roster holds k
\* entries keyed "Player 1" .. "Player k" in insertion order, pairwise
\* distinct, and the environment lists the same players in the same order.
RosterInOrder ==
    /\ \A i \in 1 .. Len(players_by_names) : players_by_names[i].key = i
    /\ Cardinality(RosterKeys) = Len(players_by_names)
    /\ players = get_players

RosterAppend ==
    ret'.op = "add_player"
        => /\ ret'.outcome = "return"
           /\ \E p \in AllPlayers :
                 /\ players_by_names' = Append(players_by_names,
                                               [key |-> Len(players_by_names) + 1, player |-> p])
                 /\ players' = Append(players, p)

C12_AsClaimed ==
    [][\A p \in Range(get_players) :
          add_player(p) => (ret'.outcome # "return" /\ UNCHANGED <<players_by_names, name>>)]_vars

\* ----------------------------------------------------------------------
\* C13: whenever end-of-game scoring ran, exactly one of the logged metrics
\* aborted, success and lose is 1, and lose is 1 exactly when success and
\* aborted are 0.
Logged(c) == trace[CHOOSE i \in DOMAIN trace : trace[i].call = c].arg

C13_ExclusiveMetrics ==
    (ret.op = "master_step" /\ Called("log_key:Aborted"))
        => /\ Called("log_key:Success") /\ Called("log_key:Lose")
           /\ Logged("log_key:Aborted") + Logged("log_key:Success") + Logged("log_key:Lose") = 1
           /\ (Logged("log_key:Lose") = 1)
                  <=> (Logged("log_key:Success") = 0 /\ Logged("log_key:Aborted") = 0)

C13_Witness ==
    /\ ret.op = "master_step"
    /\ Called("log_key:Aborted")
    /\ Logged("log_key:Aborted") = 1
    /\ Logged("log_key:Lose") = 0

\* ----------------------------------------------------------------------
\* C14: an orchestrator step for which the environment returns terminated
\* runs the after-game hook, then the game-end log, then the scoring (the
\* three metrics, then every player reset), in that order and as its last
\* calls; it passes no turn, runs no round hook and leaves current_player,
\* current_player_idx and current_round as they were.
TerminatingStep ==
    /\ ret'.op = "master_step"
    /\ calls' = calls + 1
    /\ ret'.outcome = "return"
    /\ ret'.terminated

EndOfGameCalls ==
    <<"_on_after_game", "log_game_end", "log_key:Aborted", "log_key:Success", "log_key:Lose">>

TerminationOrder ==
    TerminatingStep
        => LET N == Len(players_by_names)
               tail == SubSeq(trace', Len(trace') - (4 + N), Len(trace'))
           IN  /\ Len(trace') >= 5 + N
               /\ \A i \in 1 .. 5 : tail[i].call = EndOfGameCalls[i]
               /\ \A i \in 1 .. N : tail[5 + i] = CallArg("player.reset", get_players[i])
               /\ \A i \in DOMAIN trace' :
                     trace'[i].call \notin {"_next_player", "_on_after_round",
                                            "log_next_round", "_on_before_round"}
               /\ \A i \in 1 .. Len(trace') - (5 + N) : trace'[i].call \notin Range(EndOfGameCalls)
               /\ UNCHANGED <<current_player, current_player_idx, current_round>>

Near(c, v) == c[1] - v[1] \in -1 .. 1 /\ c[2] - v[2] \in -1 .. 1

Positions == state["_player_positions"]

\* C15: with exploration memory, within one episode a cell explored for a
\* player stays explored for that player after every further operation.
ExploredStays ==
    (show_explored /\ WasReset /\ ret'.op # "reset")
        => \A n \in DOMAIN state["_explored"] : \A c \in Cells :
              state["_explored"][n][c]
                  => (n \in DOMAIN state'["_explored"] /\ state'["_explored"][n][c])

C15_ExploredMonotone == [][ExploredStays]_vars

C15_Witness ==
    /\ show_explored /\ WasReset
    /\ ret.op = "step"
    /\ \E n \in DOMAIN Positions : \E c \in Cells :
          state["_explored"][n][c] /\ ~Near(c, Positions[n])

\* ----------------------------------------------------------------------
\* C16: in the local-window regime the mask computed for a player is true
\* at a cell exactly when the cell is in the grid and at most one row and
\* one column from the player's current position, whatever positions the
\* player occupied before; a render for that player gets this mask.
LocalWindow(n) == [c \in Cells |-> Near(c, Positions[n])]

C16_LocalWindow ==
    (limited_visibility /\ ~show_explored /\ WasReset)
        => /\ \A n \in DOMAIN Positions :
                _visible_grid(state, n) = [outcome |-> "return", none |-> FALSE, mask |-> LocalWindow(n)]
           /\ (ret.op = "render_state" /\ trace[1].arg \in DOMAIN Positions)
                => (ret.outcome = "return" /\ trace[2].arg.mask = LocalWindow(trace[1].arg))

C16_Witness ==
    /\ limited_visibility /\ ~show_explored /\ WasReset
    /\ ret.op = "render_state"
    /\ trace[1].arg \in DOMAIN Positions
    /\ \E v \in visited[trace[1].arg] : \E c \in Cells :
          Near(c, v) /\ ~trace[2].arg.mask[c]

\* ----------------------------------------------------------------------
\* C17: in the exploration-memory regime the mask used to render for a
\* player is the union of the grid-clipped 3x3 neighbourhoods of all the
\* positions the player has occupied since reset, the start included, so
\* it contains the neighbourhood of the current position.
ExploredUnion(n) == [c \in Cells |-> \E v \in visited[n] : Near(c, v)]

C17_ExploredUnion ==
    (limited_visibility /\ show_explored /\ WasReset)
        => /\ \A n \in DOMAIN Positions :
                /\ _visible_grid(state, n) = [outcome |-> "return", none |-> FALSE, mask |-> ExploredUnion(n)]
                /\ \A c \in Cells : Near(c, Positions[n]) => _visible_grid(state, n).mask[c]
           /\ (ret.op = "render_state" /\ trace[1].arg \in DOMAIN Positions)
                => (ret.outcome = "return" /\ trace[2].arg.mask = ExploredUnion(trace[1].arg))

C17_Witness ==
    /\ limited_visibility /\ show_explored /\ WasReset
    /\ ret.op = "render_state"
    /\ trace[1].arg \in DOMAIN Positions
    /\ Cardinality(visited[trace[1].arg]) >= 2
    /\ \E c \in Cells : ~trace[2].arg.mask[c]

\* ----------------------------------------------------------------------
\* C18 as claimed: under limited visibility a render for a player without
\* a known position (no name, or a name no position is recorded for)
\* raises nothing and shows every cell, in both regimes.
C18_AsClaimed ==
    (limited_visibility /\ ret.op = "render_state" /\ trace[1].arg \notin DOMAIN Positions)
        => /\ ret.outcome = "return"
           /\ trace[2].arg.none \/ \A c \in Cells : trace[2].arg.mask[c]

\* ----------------------------------------------------------------------
\* the places (cell, index) at which object o sits in the grid
Memberships(o) ==
    {m \in Cells \X (1 .. MaxCalls + MaxPlayers) :
        m[2] \in DOMAIN state["_grid"][m[1]] /\ state["_grid"][m[1]][m[2]] = o}

\* C19 as claimed: after any sequence of add, remove and move operations
\* every object is in at most one cell's stack, at most once, and that
\* cell is the one its position field names.
C19_AsClaimed ==
    "_grid" \in DOMAIN state
        => \A o \in DOMAIN objects :
              /\ Cardinality(Memberships(o)) <= 1
              /\ \A m \in Memberships(o) : m[1] = objects[o].position

\* ----------------------------------------------------------------------
\* C20: _add_object with a position inside the grid appends the object as
\* the last (topmost) element of that cell's stack and changes no other
\* cell; with a position outside the grid it raises ValueError and changes
\* no cell; the object handed in is not altered.
AddedObject == trace'[1].arg

AddObjectEffect ==
    (ret'.op = "_add_object" /\ calls' = calls + 1 /\ "_grid" \in DOMAIN state)
        => LET pos == objects'[AddedObject].position
           IN  /\ AddedObject \in DOMAIN objects => objects' = objects
               /\ IF InGrid(pos)
                  THEN /\ ret'.outcome = "return"
                       /\ state'["_grid"][pos] = Append(state["_grid"][pos], AddedObject)
                       /\ \A c \in Cells \ {pos} : state'["_grid"][c] = state["_grid"][c]
                  ELSE /\ ret'.outcome = "ValueError"
                       /\ state' = state

C20_AddObject == [][AddObjectEffect]_vars

C20_Witness ==
    /\ ret.op = "_add_object"
    /\ ret.outcome = "return"
    /\ Len(state["_grid"][objects[trace[1].arg].position]) >= 2
    /\ Last(state["_grid"][objects[trace[1].arg].position]) = trace[1].arg

\* the other case of C20: an add outside the grid was refused
AddedOutside ==
    /\ ret.op = "_add_object"
    /\ ret.outcome = "ValueError"
    /\ WasReset

\* ----------------------------------------------------------------------
\* C21 as claimed: _remove_object takes the given instance out of the cell
\* at its position when it is there and otherwise changes no cell, raises
\* nothing whatever position the object carries, and a second application
\* changes nothing more.
RemovedObject == trace'[1].arg

WithoutIndex(stack, i) ==
    [k \in 1 .. Len(stack) - 1 |-> IF k < i THEN stack[k] ELSE stack[k + 1]]

RemoveEffect ==
    (ret'.op = "_remove_object" /\ calls' = calls + 1)
        => LET o == RemovedObject
               pos == objects[o].position
               before == state["_grid"]
               after == state'["_grid"]
           IN  /\ ret'.outcome = "return"
               /\ IF InGrid(pos) /\ o \in Range(before[pos])
                  THEN /\ \E i \in DOMAIN before[pos] :
                            before[pos][i] = o /\ after[pos] = WithoutIndex(before[pos], i)
                       /\ \A c \in Cells \ {pos} : after[c] = before[c]
                  ELSE after = before
               /\ _remove_object(after, objects, o) = [grid |-> after, outcome |-> "return"]

C21_AsClaimed == [][RemoveEffect]_vars

\* ----------------------------------------------------------------------
\* C22: _get_objects_at returns the stack of the cell for a position in
\* the grid and the empty list, raising nothing, for a position outside
\* it, negative coordinates included; it changes nothing.
GetObjectsResult ==
    ret.op = "_get_objects_at"
        => /\ ret.outcome = "return"
           /\ trace[2].arg = IF trace[1].arg \in Cells THEN state["_grid"][trace[1].arg] ELSE <<>>

GetObjectsPure == ret'.op = "_get_objects_at" => UNCHANGED <<envVars, cfgVars>>

C22_GetObjectsAt == [] GetObjectsResult /\ [][GetObjectsPure]_vars

C22_Witness ==
    /\ ret.op = "_get_objects_at"
    /\ trace[1].arg \notin Cells
    /\ trace[2].arg = <<>>
    /\ \E c \in Cells : state["_grid"][c] # <<>>

\* ----------------------------------------------------------------------
\* a game with the one player p, reset with p in the grid, in which "move"
\* is in p's action space
MoveScenario(p) ==
    /\ players = <<p>>
    /\ WasReset
    /\ name[p] \in DOMAIN Positions
    /\ name[p] \in DOMAIN action_spaces
    /\ "move" \in action_spaces[name[p]]

Move(d) == [action_type |-> "move", direction |-> d]

MoveEffect(p, d) ==
    LET n == name[p]
        pos == Positions[n]
        target == Target(pos, d)
    IN  /\ ret'.outcome = "return"
        /\ state'["moves"] = state["moves"] + 1
        /\ IF InGrid(target)
           THEN /\ ~ret'.aborted /\ ~state'["aborted"]
                /\ state'["_player_positions"][n] = target
                /\ state'["_grid"][target] = Append(state["_grid"][target], Last(state["_grid"][pos]))
                /\ state'["_grid"][pos] = SubSeq(state["_grid"][pos], 1, Len(state["_grid"][pos]) - 1)
           ELSE /\ ret'.aborted /\ state'["aborted"]
                /\ state'["warning"] = OutsideWarning(target[1], target[2])
                /\ state'["_player_positions"] = state["_player_positions"]
                /\ state'["_grid"] = state["_grid"]

\* C23 as claimed: in a one-player grid game every move to a cell of the
\* grid succeeds and changes the position by one cell in that direction,
\* and every move off the grid is rejected with the outside-the-grid
\* warning and aborted, position and grid unchanged, moves incremented.
C23_AsClaimed ==
    [][\A p \in AllPlayers, d \in {"n", "s", "e", "w"} :
          (MoveScenario(p) /\ EnvStep(p, Move(d), Ongoing)) => MoveEffect(p, d)]_vars

\* C23: the same for every step that the move cap does not cut off.
C23_Move ==
    [][\A p \in AllPlayers, d \in {"n", "s", "e", "w"} :
          (MoveScenario(p) /\ ~_max_moves_reached([state EXCEPT !["moves"] = @ + 1])
              /\ EnvStep(p, Move(d), Ongoing)) => MoveEffect(p, d)]_vars

C23_Witness ==
    /\ \E p \in AllPlayers : MoveScenario(p)
    /\ ret.op = "step" /\ ret.action_type = "move"
    /\ ret.aborted /\ ~ret.terminated
    /\ state["warning"].text = OutsideWarning(0, 0).text
    /\ state["moves"] = MaxCalls
    /\ \E n \in DOMAIN Positions : Positions[n] = <<0, 2>>

\* ----------------------------------------------------------------------
\* C24: batch_response maps each row id to the pair of the context and the
\* response of the player at the same input index, for players with
\* distinct models and for players that share one; without row ids the
\* keys are 0 .. N-1 in input order.
BatchInput == trace[1].arg

BatchResult == Last(trace).arg

C24_BatchAttribution ==
    ret.op = "batch_response"
        => LET N == Len(BatchInput.models)
               key(i) == IF BatchInput.row_ids.given THEN BatchInput.row_ids.ids[i] ELSE i - 1
           IN  /\ DOMAIN BatchResult = {key(i) : i \in 1 .. N}
               /\ \A i \in 1 .. N :
                     BatchResult[key(i)]
                        = <<BatchInput.contexts[i], <<BatchInput.models[i], BatchInput.contexts[i]>>>>

C24_Witness ==
    /\ ret.op = "batch_response"
    /\ Len(BatchInput.models) = 2
    /\ BatchInput.models[1] = BatchInput.models[2]
    /\ BatchInput.contexts[1] # BatchInput.contexts[2]
    /\ BatchInput.row_ids = [given |-> TRUE, ids |-> <<20, 10>>]
    /\ Len(trace) = 3

\* ----------------------------------------------------------------------
\* render_state gave what the renderer selected by render_as gives, and
\* raised ValueError for a value that selects none
RenderDispatch ==
    (ret.op = "render_state" /\ trace[2].arg.outcome = "return")
        => LET vis == trace[2].arg
               rendered == trace[3].arg
           IN  CASE render_as = "image" ->
                        ret.outcome = "return" /\ rendered = _render_state_as_image(state, vis)
                 [] render_as = "string" ->
                        ret.outcome = "return" /\ rendered = _render_state_as_string(state, vis)
                 [] render_as = "human-readable" ->
                        ret.outcome = "return" /\ rendered = _render_state_as_human_readable(state, vis)
                 [] OTHER -> ret.outcome = "ValueError"

UnknownRenderAs == render_as \notin {"image", "string", "human-readable"}

\* C25 as claimed: render_state dispatches on render_as and raises for any
\* other value, and every step on an environment with an unknown render_as
\* value raises instead of returning a result.
C25_AsClaimed ==
    /\ RenderDispatch
    /\ (ret.op = "step" /\ UnknownRenderAs) => ret.outcome # "return"

\* C25: the same, for the steps that the move cap does not cut off.
C25_RenderDispatch ==
    /\ RenderDispatch
    /\ (ret.op = "step" /\ UnknownRenderAs /\ ~(WasReset /\ CutOff)) => ret.outcome # "return"

C25_Witness ==
    /\ UnknownRenderAs
    /\ ret.op = "step"
    /\ ret.outcome = "ValueError"
    /\ ret.action_type = "move"
    /\ state["moves"] = 1
    /\ Called("_update_state_through_action")

\* ----------------------------------------------------------------------
SetupReturned == ret.op = "setup" /\ ret.outcome = "return"

\* is_done answered with the environment's terminated flag
IsDoneReflectsTerminated ==
    (ret.op = "is_done" /\ current_player # NoPlayer /\ WasReset)
        => trace[1].arg = state["terminated"]

\* has_started answers false until setup has returned and true from then on
HasStartedAnswer ==
    /\ ret.op = "__init__" => ~has_started
    /\ ret.op = "has_started" => trace[1].arg = has_started

HasStartedBySetup ==
    /\ SetupReturned' => has_started'
    /\ has_started => has_started'
    /\ (~has_started /\ ~SetupReturned') => ~has_started'

C27_AsClaimed ==
    SetupReturned =>
        /\ current_player = get_players[1]
        /\ trace = <<Call("_on_setup"), Call("_on_before_game")>>

\* ----------------------------------------------------------------------
MasterStepDone == ret.op = "master_step"

CountCalls(tr, c) == Cardinality({i \in DOMAIN tr : tr[i].call = c})

\* C28: in an orchestrator step, if the response-validation hook rejects
\* the raw response the parse hook is not called and the environment
\* receives exactly the violated_format action; otherwise it receives the
\* action returned by the parse hook; either way the environment's step is
\* called exactly once, for the current player.
ActionRouting ==
    MasterStepDone' =>
        /\ trace'[1].call = "_response_valid"
        /\ trace'[1].arg.player = current_player
        /\ IF trace'[1].arg.answer
           THEN /\ trace'[2].call = "_parse_action_from_response"
                /\ trace'[3].arg.action = trace'[2].arg
           ELSE /\ ~Called("_parse_action_from_response")'
                /\ trace'[2].call = "_violated_format_action"
                /\ trace'[3].arg.action = [action_type |-> "violated_format", direction |-> ""]
        /\ trace'[3].call = "game_environment.step"
        /\ trace'[3].arg.player = current_player
        /\ CountCalls(trace', "game_environment.step") = 1

C28_ActionRouting == [][ActionRouting]_vars

C28_Witness ==
    /\ MasterStepDone
    /\ ~trace[1].arg.answer
    /\ trace[3].arg.player = 2
    /\ ret.aborted
    /\ ~ret.terminated

\* C29: at every round boundary the orchestrator runs, within the same
\* step and in this order, the after-round hook, the increment of
\* current_round by exactly 1, the round-advance log call and the
\* before-round hook; after-round and before-round calls are paired and
\* current_round grows by one with every after-round call and not otherwise.
RoundBoundaryOrder ==
    IF MasterStepDone' /\ Called("_on_after_round")'
    THEN LET n == Len(trace')
         IN  /\ n >= 3
             /\ trace'[n - 2] = CallArg("_on_after_round", current_round)
             /\ trace'[n - 1] = CallArg("log_next_round", current_round + 1)
             /\ trace'[n] = CallArg("_on_before_round", current_round + 1)
             /\ current_round' = current_round + 1
             /\ \A c \in {"_on_after_round", "log_next_round", "_on_before_round"} :
                    CountCalls(trace', c) = 1
    ELSE /\ current_round' = current_round
         /\ MasterStepDone' => /\ ~Called("log_next_round")'
                                /\ ~Called("_on_before_round")'

C29_RoundBoundary == [][RoundBoundaryOrder]_vars

C29_Witness ==
    /\ MasterStepDone
    /\ current_round = 2
    /\ Called("_next_player")
    /\ Last(trace) = CallArg("_on_before_round", 2)

\* C30: the request-violation counter is incremented by exactly one in an
\* orchestrator step if and only if the environment returned aborted=true
\* together with reward 0; with the default reward policy this is every
\* aborted step, the step cut off by the move cap included, and no
\* non-aborted step.
C30_ViolationCount ==
    (MasterStepDone /\ ret.outcome = "return")
        => /\ CountCalls(trace, "count_request_violation")
                = (IF ret.aborted /\ ret.reward = 0 THEN 1 ELSE 0)
           /\ ret.aborted <=> Called("count_request_violation")

C30_Witness ==
    /\ MasterStepDone
    /\ ret.outcome = "return"
    /\ CutOff
    /\ ret.terminated
    /\ ~Called("_is_action_valid")
    /\ CountCalls(trace, "count_request_violation") = 1

\* ----------------------------------------------------------------------
Rendered == ret.op = "render_state" /\ ret.outcome = "return"

\* what cell k of a text rendering must show
CellText(k, mask, unknown, field, empty) ==
    LET c == <<(k - 1) \div width, (k - 1) % width>>
        stack == state["_grid"][c]
    IN  [cell |-> c,
         content |-> IF ~mask[c] THEN unknown
                     ELSE IF Len(stack) = 0 THEN empty
                     ELSE <<field, stack[Len(stack)]>>]

\* C31: the string and human-readable renderers emit one entry per grid
\* cell in row-major order for the whole height x width grid; a cell whose
\* mask value is false is rendered as the unknown marker whatever it
\* contains, a cell whose mask value is true as the symbol of the topmost
\* object of its stack, or as the empty marker when the stack is empty.
C31_TextRenderers ==
    (Rendered /\ ~trace[2].arg.none)
        => LET mask == trace[2].arg.mask
               cells == trace[3].arg.cells
           IN  /\ Len(cells) = height * width
               /\ render_as = "string" =>
                      \A k \in 1 .. height * width :
                          cells[k] = CellText(k, mask, "?", "symbol", "empty")
               /\ render_as = "human-readable" =>
                      \A k \in 1 .. height * width :
                          cells[k] = CellText(k, mask, "unknown-glyph", "pretty_symbol", "empty-glyph")

C31_Witness ==
    /\ Rendered
    /\ render_as = "human-readable"
    /\ ~trace[2].arg.none
    /\ \E c \in Cells : ~trace[2].arg.mask[c] /\ state["_grid"][c] # <<>>
    /\ \E c \in Cells : trace[2].arg.mask[c] /\ Len(state["_grid"][c]) = 2

\* ----------------------------------------------------------------------
StepReturned == StepCalled /\ ret.outcome = "return"

\* every player has the observation made from the state as it is now
ObservationsFresh ==
    /\ Called("update_observations")
    /\ \A i \in DOMAIN players :
          /\ name[players[i]] \in DOMAIN observations
          /\ observations[name[players[i]]]
                = _create_observation(state["warning"], render_state(state, name[players[i]]).render)

\* C32 as claimed: every call to step that returns has recomputed the
\* observations of all players from the post-step state before returning.
C32_AsClaimed == StepReturned => ObservationsFresh

\* C32: every call to step that returns without being cut off by the move
\* cap has recomputed the observations of all players from the post-step
\* state, so none is older than the state the step returned.
C32_Observations == (StepReturned /\ ~CutOff) => ObservationsFresh

C32_Witness ==
    /\ StepReturned
    /\ ~CutOff
    /\ Len(players) = 2
    /\ ret.aborted
    /\ state["warning"] # NoWarning
    /\ ObservationsFresh

\* ----------------------------------------------------------------------
Generated == ret.op = "generate_response"

Attempts == CountCalls(trace, "client.complete")

\* C33: a generate_response call is attempted at most 3 times; the result
\* of the first attempt that succeeds is returned and no further attempt
\* is made; if all 3 attempts fail the failure propagates to the caller;
\* no fourth attempt ever occurs.
C33_Retry ==
    Generated =>
        LET fails == trace[1].arg.failures
        IN  /\ Attempts <= 3
            /\ \A k \in 1 .. Attempts - 1 : fails[k]
            /\ IF \E k \in 1 .. 3 : ~fails[k]
               THEN /\ ret.outcome = "return"
                    /\ ~fails[Attempts]
                    /\ Last(trace).call = "return:generate_response"
                    /\ Last(trace).arg.attempt = Attempts
               ELSE /\ ret.outcome = "Exception"
                    /\ Attempts = 3
                    /\ ~Called("return:generate_response")

C33_Witness ==
    /\ Generated
    /\ ret.outcome = "Exception"
    /\ Attempts = 3
    /\ ~trace[1].arg.failures[4]

\* ----------------------------------------------------------------------
\* the cell recorded for the player name n holds that player's object
OwnObjectAtPosition(n) ==
    LET pos == state["_player_positions"][n]
        stack == state["_grid"][pos]
    IN  \E i \in DOMAIN stack :
            /\ objects[stack[i]].player # NoPlayer
            /\ name[objects[stack[i]].player] = n
            /\ objects[stack[i]].position = pos

\* C34 as claimed: in an inclusive grid with two or more players, after
\* reset and any sequence of in-grid moves by any players, moves that put
\* two players in the same cell included, for every player p the cell at
\* _player_positions[p] contains the PlayerObject bound to p.
C34_AsClaimed ==
    (WasReset /\ Cardinality(DOMAIN state["_player_positions"]) >= 2)
        => \A n \in DOMAIN state["_player_positions"] : OwnObjectAtPosition(n)

\* ----------------------------------------------------------------------
\* C35 as claimed: after every step that ends with aborted=false,
\* state.warning is the empty string; a warning set by an earlier rejected
\* action is in neither the state, the info snapshot nor the observations
\* of a later accepted step.
C35_AsClaimed ==
    (StepReturned /\ ~ret.aborted)
        => /\ state["warning"] = NoWarning
           /\ ret.info["warning"] = NoWarning
           /\ \A n \in DOMAIN observations : observations[n].content[1] = NoWarning

\* ----------------------------------------------------------------------
\* a further orchestrator step in an episode that has terminated
StepAfterTermination == WasReset /\ is_done /\ MasterStepDone'

\* C36 as claimed: termination is absorbing within an episode: once a step
\* has returned terminated=true, is_done() stays true under any further
\* calls to step until the next reset, and the after-game hook and the
\* end-of-game scoring run at most once per episode.
C36_AsClaimed ==
    [][StepAfterTermination
          => /\ is_done'
             /\ ~Called("_on_after_game")'
             /\ ~Called("log_key:Aborted")']_vars

\* ----------------------------------------------------------------------
GenericFields == {"moves", "terminated", "aborted", "success"}

\* a call of step on an environment that was reset
StepTaken == WasReset /\ ret'.op = "step"

\* C37: in a step cut off by the move cap the submitted action is never
\* validated or applied: the apply hook, check_won and the validation
\* checks are not invoked, warning and every game-specific state field are
\* unchanged, and only moves, terminated, aborted and success change;
\* hence with max_moves = M an action is applied only in a step that
\* leaves moves below M, the steps of an episode count moves up one by
\* one, and at most M-1 actions are applied in an episode.
CapCutsOff ==
    StepTaken =>
        /\ state'["moves"] = state["moves"] + 1
        /\ CutOff' =>
              /\ ret'.outcome = "return"
              /\ ~Called("_is_action_valid")'
              /\ ~Called("_action_violates_format")'
              /\ ~Called("_action_not_in_action_space")'
              /\ ~Called("_action_invalid_in_state")'
              /\ ~Called("_update_state_through_action")'
              /\ ~Called("check_won")'
              /\ DOMAIN state' = DOMAIN state
              /\ \A key \in DOMAIN state \ GenericFields : state'[key] = state[key]
              /\ state'["terminated"] /\ state'["aborted"] /\ ~state'["success"]
              /\ objects' = objects
        /\ (max_moves # NoneInt /\ Called("_update_state_through_action")')
              => state'["moves"] <= max_moves - 1

C37_CapCutsOff == [][CapCutsOff]_vars

C37_Witness ==
    /\ StepReturned
    /\ CutOff
    /\ state["moves"] = max_moves
    /\ max_moves = 2
    /\ state["warning"] # NoWarning
    /\ ret.terminated
    /\ ret.aborted

\* ----------------------------------------------------------------------
\* the turn passes from the last player of the roster back to the first
CycleCompleted ==
    /\ MasterStepDone'
    /\ Called("_next_player")'
    /\ current_player_idx = Len(players_by_names) - 1
    /\ current_player_idx' = 0

\* C38 as claimed: current_round changes only in a step that passes the
\* turn from the last roster player back to the first; an aborted step,
\* which does not pass the turn, never increments current_round or runs
\* the round hooks.
C38_AsClaimed ==
    [][/\ current_round' # current_round => CycleCompleted
       /\ (MasterStepDone' /\ ret'.aborted)
             => /\ current_round' = current_round
                /\ ~Called("_on_after_round")'
                /\ ~Called("_on_before_round")']_vars

\* ----------------------------------------------------------------------
\* step raised the fatal error for an action without action_type
RaisedForMissingType ==
    StepTaken /\ ret'.action_type = NoType /\ ret'.outcome = "ValueError"

\* C39 as claimed: when step raises the fatal error for an action without
\* action_type, the environment state is left exactly as it was before the
\* call: moves is not incremented and terminated, success, aborted and
\* warning keep their previous values.
C39_AsClaimed == [][RaisedForMissingType => state' = state]_vars

\* ----------------------------------------------------------------------
\* _move_player was called with a direction that leads out of the grid
MovedOutside ==
    /\ WasReset
    /\ ret'.op = "_move_player"
    /\ LET n == trace'[1].arg.player_name
       IN  /\ n \in DOMAIN state["_player_positions"]
           /\ state["_grid"][state["_player_positions"][n]] # <<>>
           /\ ~InGrid(Target(state["_player_positions"][n], trace'[1].arg.direction))

\* C40 as claimed: _move_player called with a direction whose target cell
\* lies outside the grid raises the out-of-bounds error and leaves the
\* grid, the player object's position field, the recorded player position
\* and the explored map unchanged.
C40_AsClaimed ==
    [][MovedOutside => /\ ret'.outcome = "ValueError"
                       /\ state' = state
                       /\ objects' = objects]_vars
====
